---- MODULE Spec2Model ----
(***************************************************************************)
(* A model of sacamantecas.py: the catalogue page parser                    *)
(* (LibraryCatalogueHTMLParser), the fetcher (retrieve_uri_contents), the   *)
(* spreadsheet sink (SkimmedExcel) and the pipeline loop of main().         *)
(*                                                                         *)
(* Text (a Python str) is a sequence of Unicode code points, a byte string  *)
(* is a sequence of numbers 0..255.  A Python dict is the sequence of its   *)
(* <<key, value>> items in insertion order.                                 *)
(***************************************************************************)
EXTENDS Integers, Sequences, FiniteSets, TLC

VARIABLES
    parser,         \* the LibraryCatalogueHTMLParser object (its fields)
    pstage,         \* position of the parser's caller: "idle", "feeding", "returned", "raised"
    nfed,           \* number of events fed to `parser` so far, over all parse() calls
    markup,         \* the markup given to repeated parse() calls, as its events
    event,          \* the event feed() handled last in the current parse() call
    results,        \* the mappings those parse() calls returned, in order
    req_uri,        \* the URI given to retrieve_uri_contents
    network,        \* what the network answers the first and the second GET of that call
    fetched,        \* the outcome of that call
    mantecafile,    \* main(): the source, a sheet's rows or a text file's lines
    skimmedfile,    \* main(): the sink
    pos,            \* main(): the number of records get_mantecas() has yielded
    bad_uris,       \* main(): the failure list
    sink_calls,     \* the add_metadata calls made on the sink, in order
    closed,         \* which of "mantecafile", "skimmedfile" had close() return
    pc,             \* main(): "loop", "close_sink", "report", "done"; "off" outside main()
    raised,         \* main(): the exception that ended the try block, "None" if none
    report          \* main(): the failure report logged, in order

parser_vars == <<parser, pstage, nfed, markup, event, results>>
fetch_vars == <<req_uri, network, fetched>>
main_vars == <<mantecafile, skimmedfile, pos, bad_uris, sink_calls, closed, pc, raised, report>>
vars == <<parser_vars, fetch_vars, main_vars>>

----------------------------------------------------------------------------
(* Bounds of the model *)

MaxEvents == 8      \* markup events fed to one parser object, over all its parse() calls
MaxMarkup == 2    \* events of the markup that is parsed repeatedly
MaxBefore == 1      \* events of the markup parsed before it by the same parser
MaxRuns == 2        \* parse() calls on the same markup
MaxTokens == 2      \* tokens of the body of the page first fetched
MaxTokens2 == 1     \* tokens of the body of the page a directive redirects to
MaxRows == 2        \* rows of the input sheet, lines of the input text file
MaxSinkCalls == 2   \* add_metadata calls on one sink driven alone

----------------------------------------------------------------------------
(* Text helpers (Python str methods) *)

\* Python's None where a text is expected (an attribute without a value).
NoValue == <<-1>>

\* s[:n], the first n items of s or all of s if it is shorter.
Prefix(s, n) == SubSeq(s, 1, IF n < Len(s) THEN n ELSE Len(s))

\* str.isspace() for one code point.
IsSpace(c) == c \in {9, 10, 11, 12, 13, 28, 29, 30, 31, 32, 133, 160}

\* sub in s
Contains(sub, s) ==
    \E i \in 0..(Len(s) - Len(sub)) : SubSeq(s, i + 1, i + Len(sub)) = sub

\* s.split(): the maximal runs of non-whitespace of s.
RECURSIVE split(_, _, _)
split(s, cur, acc) ==
    IF s = <<>> THEN (IF cur = <<>> THEN acc ELSE Append(acc, cur))
    ELSE IF IsSpace(Head(s))
         THEN split(Tail(s), <<>>, IF cur = <<>> THEN acc ELSE Append(acc, cur))
         ELSE split(Tail(s), Append(cur, Head(s)), acc)

\* sep.join(words)
RECURSIVE join(_, _)
join(sep, words) ==
    IF words = <<>> THEN <<>>
    ELSE IF Len(words) = 1 THEN words[1]
    ELSE words[1] \o sep \o join(sep, Tail(words))

\* s.rstrip(chars) for a single character.
RECURSIVE rstrip(_, _)
rstrip(s, c) ==
    IF s # <<>> /\ s[Len(s)] = c THEN rstrip(SubSeq(s, 1, Len(s) - 1), c) ELSE s

\* All sequences over S of length at most n.
RECURSIVE SeqsUpTo(_, _)
SeqsUpTo(S, n) ==
    IF n = 0 THEN {<<>>}
    ELSE LET shorter == SeqsUpTo(S, n - 1)
         IN shorter \cup {Append(s, x) : s \in shorter, x \in S}

\* d[key] = value on a dict kept as its items in insertion order.
DictSet(d, key, value) ==
    IF \E i \in 1..Len(d) : d[i][1] = key
    THEN [i \in 1..Len(d) |-> IF d[i][1] = key THEN <<key, value>> ELSE d[i]]
    ELSE Append(d, <<key, value>>)

DictKeys(d) == {d[i][1] : i \in 1..Len(d)}

----------------------------------------------------------------------------
(* Configuration *)

CONFIG_K_DIV_CLASS == <<97, 117, 116, 104>>         \* 'auth'
CONFIG_V_DIV_CLASS == <<116, 105, 116, 110>>        \* 'titn'
CONFIG_PREFIX == <<91, 115, 109, 93, 32>>           \* '[sm] '
EMPTY_KEY == <<91, 118, 97, 99, 237, 111, 93>>      \* '[vacío]'
VALUE_SEPARATOR == <<32, 47, 32>>                   \* ' / '
COLON == 58                                         \* ':'

----------------------------------------------------------------------------
(* LibraryCatalogueHTMLParser *)

\* __init__: the fields of a newly constructed parser.
ParserInit ==
    [within_k_tag |-> FALSE, within_v_tag |-> FALSE,
     current_key |-> <<>>, current_value |-> <<>>,
     retrieved_metadata |-> <<>>]

\* The result of a handler: the parser after it, and the exception it raised.
Returned(p) == [parser |-> p, exc |-> "None"]
Raised(p, e) == [parser |-> p, exc |-> e]

\* The body of handle_starttag's loop, for the attributes still to visit.
RECURSIVE starttag_loop(_, _)
starttag_loop(p, attrs) ==
    IF attrs = <<>> THEN Returned(p)
    ELSE LET attr == Head(attrs) IN
         IF attr[1] # "class" THEN starttag_loop(p, Tail(attrs))
         ELSE IF attr[2] = NoValue THEN Raised(p, "TypeError")
         ELSE LET p1 == IF Contains(CONFIG_K_DIV_CLASS, attr[2])
                        THEN [p EXCEPT !.within_k_tag = TRUE, !.current_key = <<>>]
                        ELSE p
                  p2 == IF Contains(CONFIG_V_DIV_CLASS, attr[2])
                        THEN [p1 EXCEPT !.within_v_tag = TRUE, !.current_value = <<>>]
                        ELSE p1
              IN starttag_loop(p2, Tail(attrs))

handle_starttag(p, tag, attrs) == starttag_loop(p, attrs)

\* handle_endtag without the replacement of an empty key.
handle_endtag_keeps_empty_key(p, tag) ==
    LET p1 == IF p.within_k_tag THEN [p EXCEPT !.within_k_tag = FALSE] ELSE p
    IN  IF p1.within_v_tag
        THEN Returned([p1 EXCEPT
                 !.within_v_tag = FALSE,
                 !.retrieved_metadata = DictSet(@, p1.current_key, p1.current_value),
                 !.current_key = <<>>,
                 !.current_value = <<>>])
        ELSE Returned(p1)

\* handle_endtag without the reset of the key buffer after the store.
handle_endtag_keeps_key_buffer(p, tag) ==
    LET p1 == IF p.within_k_tag THEN [p EXCEPT !.within_k_tag = FALSE] ELSE p
        key == IF p1.current_key = <<>> THEN EMPTY_KEY ELSE p1.current_key
    IN  IF p1.within_v_tag
        THEN Returned([p1 EXCEPT
                 !.within_v_tag = FALSE,
                 !.retrieved_metadata = DictSet(@, key, p1.current_value),
                 !.current_value = <<>>])
        ELSE Returned(p1)

handle_endtag(p, tag) ==
    LET p1 == IF p.within_k_tag THEN [p EXCEPT !.within_k_tag = FALSE] ELSE p
        key == IF p1.current_key = <<>> THEN EMPTY_KEY ELSE p1.current_key
    IN  IF p1.within_v_tag
        THEN Returned([p1 EXCEPT
                 !.within_v_tag = FALSE,
                 !.retrieved_metadata = DictSet(@, key, p1.current_value),
                 !.current_key = <<>>,
                 !.current_value = <<>>])
        ELSE Returned(p1)

handle_data(p, data) ==
    LET within == p.within_k_tag \/ p.within_v_tag
        clean == IF within THEN join(<<32>>, split(data, <<>>, <<>>)) ELSE data
    IN  IF within /\ clean = <<>> THEN Returned(p)
        ELSE LET p1 == IF p.within_k_tag
                       THEN [p EXCEPT !.current_key = @ \o rstrip(clean, COLON)]
                       ELSE p
                 p2 == IF p1.within_v_tag
                       THEN [p1 EXCEPT !.current_value =
                                (IF @ # <<>> THEN @ \o VALUE_SEPARATOR ELSE @) \o clean]
                       ELSE p1
             IN Returned(p2)

\* What HTMLParser.feed() calls for one event of the markup.
Dispatch(p, ev) ==
    CASE ev.type = "start" -> handle_starttag(p, ev.tag, ev.attrs)
      [] ev.type = "end"   -> handle_endtag(p, ev.tag)
      [] ev.type = "data"  -> handle_data(p, ev.data)

\* parse(), first statement: self.retrieved_metadata.clear()
parse_begin(p) == [p EXCEPT !.retrieved_metadata = <<>>]

\* self.feed(contents); self.close() for contents that tokenize to `events`.
RECURSIVE feed(_, _)
feed(p, events) ==
    IF events = <<>> THEN Returned(p)
    ELSE CHOOSE out \in { IF r.exc # "None" THEN r ELSE feed(r.parser, Tail(events)) :
                          r \in {Dispatch(p, Head(events))} } : TRUE

\* parse(contents): the parser after the call and the exception raised, if any;
\* the value returned is the parser's retrieved_metadata.
parse(p, events) == feed(parse_begin(p), events)

----------------------------------------------------------------------------
(* The markup events the parser is driven with *)

StartTag(tag, attrs) == [type |-> "start", tag |-> tag, attrs |-> attrs, data |-> <<>>]
EndTag(tag) == [type |-> "end", tag |-> tag, attrs |-> <<>>, data |-> <<>>]
Data(data) == [type |-> "data", tag |-> "", attrs |-> <<>>, data |-> data]
\* feed() has handled no event yet.
NoEvent == [type |-> "none", tag |-> "", attrs |-> <<>>, data |-> <<>>]

ClassValues ==
    { CONFIG_K_DIV_CLASS,               \* class="auth"
      CONFIG_V_DIV_CLASS,               \* class="titn"
      <<120>>,                          \* class="x"
      NoValue }                         \* class (no value)

DataValues ==
    { <<97>>,                           \* 'a'
      <<32, 98, 58>>,                   \* ' b:'
      <<58>>,                           \* ':'
      <<32>> }                          \* ' '

Events ==
    {StartTag("div", <<<<"class", c>>>>) : c \in ClassValues}
    \cup {StartTag("a", <<>>), EndTag("a"), EndTag("div")}
    \cup {Data(d) : d \in DataValues}

----------------------------------------------------------------------------
(* urllib: the parts of urlparse, urlunparse and urlopen the fetcher uses *)

HTTP == <<104, 116, 116, 112>>                      \* 'http'
HTTPS == <<104, 116, 116, 112, 115>>                \* 'https'
SLASH == 47                                         \* '/'

Lower(s) == [i \in 1..Len(s) |-> IF s[i] \in 65..90 THEN s[i] + 32 ELSE s[i]]

\* s.find(c) for any c of chars, 1-based; 0 when there is none.
Find(s, chars) ==
    IF \E i \in 1..Len(s) : s[i] \in chars
    THEN CHOOSE i \in 1..Len(s) :
            s[i] \in chars /\ \A j \in 1..(i - 1) : s[j] \notin chars
    ELSE 0

IsAlpha(c) == c \in (65..90) \cup (97..122)
IsSchemeChar(c) == IsAlpha(c) \/ c \in (48..57) \cup {43, 45, 46}

\* urlparse(uri): its scheme and netloc (the other components are not used).
urlparse(uri) ==
    LET i == Find(uri, {58})
        has_scheme == /\ i > 1
                      /\ IsAlpha(uri[1])
                      /\ \A j \in 1..(i - 1) : IsSchemeChar(uri[j])
        rest == IF has_scheme THEN SubSeq(uri, i + 1, Len(uri)) ELSE uri
        has_netloc == Prefix(rest, 2) = <<SLASH, SLASH>>
        after == SubSeq(rest, 3, Len(rest))
        delim == Find(after, {SLASH, 63, 35})
    IN  [scheme |-> IF has_scheme THEN Lower(SubSeq(uri, 1, i - 1)) ELSE <<>>,
         netloc |-> IF ~has_netloc THEN <<>>
                    ELSE IF delim = 0 THEN after
                    ELSE SubSeq(after, 1, delim - 1)]

\* Schemes of urllib.parse.uses_netloc that the model's URIs can carry.
UsesNetloc(scheme) == scheme \in {HTTP, HTTPS}

\* urlunparse((scheme, netloc, url, '', '', ''))
urlunparse(scheme, netloc, url) ==
    LET with_netloc ==
            IF netloc # <<>>
               \/ (scheme # <<>> /\ UsesNetloc(scheme) /\ Prefix(url, 2) # <<SLASH, SLASH>>)
            THEN <<SLASH, SLASH>> \o netloc
                 \o (IF url # <<>> /\ url[1] # SLASH THEN <<SLASH>> \o url ELSE url)
            ELSE url
    IN  IF scheme # <<>> THEN scheme \o <<58>> \o with_netloc ELSE with_netloc

\* The type urllib.request gives a URL: the text before its first ':', when no
\* '/' comes before it; NoValue otherwise.
UrlType(uri) ==
    LET i == Find(uri, {58, SLASH})
    IN  IF i > 1 /\ uri[i] = 58 THEN Lower(SubSeq(uri, 1, i - 1)) ELSE NoValue

\* A response of the network to one GET: an exception raised by urlopen() or
\* read(), or a page with its transport-declared charset and its body.
Page(charset, body) == [exc |-> "None", charset |-> charset, body |-> body]
Failure(e) == [exc |-> e, charset |-> "None", body |-> <<>>]

\* urlopen(uri) and read(): `response` is what the network answers if asked.
\* `sent` tells whether a GET was issued.
urlopen(uri, response) ==
    IF UrlType(uri) = NoValue
    THEN [sent |-> FALSE, response |-> Failure("ValueError: unknown url type")]
    ELSE IF UrlType(uri) \notin {HTTP, HTTPS} \/ urlparse(uri).netloc = <<>>
    THEN [sent |-> FALSE, response |-> Failure("URLError")]
    ELSE [sent |-> TRUE, response |-> response]

----------------------------------------------------------------------------
(* Page bodies: the markup as tokens, its text still bytes *)

Token(type, tag, attrs, data, charset) ==
    [type |-> type, tag |-> tag, attrs |-> attrs, data |-> data, charset |-> charset]

\* <meta http-equiv="refresh" content="0;url=TARGET">
MetaRefresh(target) == Token("refresh", "meta", <<>>, target, "None")
\* <meta http-equiv="content-type" content="text/html; charset=CHARSET">, or
\* content="text/html" when charset is "None"
MetaContentType(charset) == Token("content-type", "meta", <<>>, <<>>, charset)
\* <meta charset="CHARSET">
MetaCharset(charset) == Token("charset", "meta", <<>>, <<>>, charset)
Open(tag, attrs) == Token("start", tag, attrs, <<>>, "None")
Close(tag) == Token("end", tag, <<>>, <<>>, "None")
Bytes(data) == Token("data", "", <<>>, data, "None")

First(body, type) ==
    IF \E i \in 1..Len(body) : body[i].type = type
    THEN CHOOSE i \in 1..Len(body) :
            body[i].type = type /\ \A j \in 1..(i - 1) : body[j].type # type
    ELSE 0

\* re.search(rb'<meta http-equiv="refresh" content="[^;]+;\s*url=([^"]+)"', ...):
\* the index of the first refresh directive, 0 for no match.
search_refresh(body) == First(body, "refresh")

\* re.search(rb'<meta http-equiv="content-type".*charset=([^"]+)"', ...): the
\* match starts at the first content-type element and `.*` is greedy, so group 1
\* is the charset of the last such element of that line that names one (the
\* bodies of the model are one line).  The index of that element, 0 for no match.
search_http_equiv(body) ==
    LET named == {i \in 1..Len(body) :
                    body[i].type = "content-type" /\ body[i].charset # "None"}
    IN  IF named = {} THEN 0 ELSE CHOOSE i \in named : \A j \in named : j <= i

\* re.search(rb'<meta charset="([^"]+)"', ...)
search_meta_charset(body) == First(body, "charset")

----------------------------------------------------------------------------
(* bytes.decode *)

\* The codec Python looks up for a charset name.
Codec(charset) ==
    CASE charset \in {"utf-8", "utf8"} -> "utf-8"
      [] charset \in {"latin_1", "latin-1", "iso-8859-1"} -> "latin-1"
      [] OTHER -> "unknown"

RECURSIVE decode_utf8(_, _)
decode_utf8(b, acc) ==
    IF b = <<>> THEN [ok |-> TRUE, text |-> acc]
    ELSE LET n == Len(b)
             cont(i) == i <= n /\ b[i] \in 128..191
         IN CASE b[1] < 128 ->
                    decode_utf8(Tail(b), Append(acc, b[1]))
              [] b[1] \in 194..223 /\ cont(2) ->
                    decode_utf8(SubSeq(b, 3, n),
                                Append(acc, (b[1] - 192) * 64 + (b[2] - 128)))
              [] /\ b[1] \in 224..239 /\ cont(2) /\ cont(3)
                 /\ (b[1] = 224 => b[2] >= 160) /\ (b[1] = 237 => b[2] <= 159) ->
                    decode_utf8(SubSeq(b, 4, n),
                                Append(acc, (b[1] - 224) * 4096 + (b[2] - 128) * 64
                                            + (b[3] - 128)))
              [] /\ b[1] \in 240..244 /\ cont(2) /\ cont(3) /\ cont(4)
                 /\ (b[1] = 240 => b[2] >= 144) /\ (b[1] = 244 => b[2] <= 143) ->
                    decode_utf8(SubSeq(b, 5, n),
                                Append(acc, (b[1] - 240) * 262144 + (b[2] - 128) * 4096
                                            + (b[3] - 128) * 64 + (b[4] - 128)))
              [] OTHER -> [ok |-> FALSE, text |-> acc]

\* data.decode(charset) for the bytes of one text run.
decode_bytes(data, charset) ==
    CASE Codec(charset) = "utf-8" ->
            LET d == decode_utf8(data, <<>>)
            IN [exc |-> IF d.ok THEN "None" ELSE "UnicodeDecodeError", text |-> d.text]
      [] Codec(charset) = "latin-1" -> [exc |-> "None", text |-> data]
      [] OTHER -> [exc |-> "LookupError", text |-> <<>>]

\* contents.decode(charset): the markup is ASCII, the text runs are decoded.
decode(body, charset) ==
    LET bad == {i \in 1..Len(body) :
                  body[i].type = "data" /\ decode_bytes(body[i].data, charset).exc # "None"}
    IN  IF Codec(charset) = "unknown" THEN [exc |-> "LookupError", text |-> <<>>]
        ELSE IF bad # {} THEN [exc |-> "UnicodeDecodeError", text |-> <<>>]
        ELSE [exc |-> "None",
              text |-> [i \in 1..Len(body) |->
                          IF body[i].type = "data"
                          THEN [body[i] EXCEPT !.data = decode_bytes(@, charset).text]
                          ELSE body[i]]]

----------------------------------------------------------------------------
(* retrieve_uri_contents *)

Fetched(text, charset, gets) ==
    [exc |-> "None", text |-> text, charset |-> charset, gets |-> gets]
FetchRaised(e, gets) ==
    [exc |-> e, text |-> <<>>, charset |-> "None", gets |-> gets]

\* determine_charset with the two meta elements looked up in the other order.
determine_charset_meta_charset_first(charset, contents) ==
    IF charset # "None" THEN charset
    ELSE IF search_meta_charset(contents) # 0
         THEN contents[search_meta_charset(contents)].charset
    ELSE IF search_http_equiv(contents) # 0
         THEN contents[search_http_equiv(contents)].charset
    ELSE "latin_1"

\* The charset the body is decoded with, given the transport-declared one.
determine_charset(charset, contents) ==
    IF charset # "None" THEN charset
    ELSE IF search_http_equiv(contents) # 0
         THEN contents[search_http_equiv(contents)].charset
    ELSE IF search_meta_charset(contents) # 0
         THEN contents[search_meta_charset(contents)].charset
    ELSE "latin_1"

\* redirected_uri with the target appended to the path of the original URI.
redirected_uri_keeps_path(uri, target) ==
    LET parts == urlparse(uri)
        prefix == parts.scheme \o <<58, SLASH, SLASH>> \o parts.netloc
        rest == SubSeq(uri, Len(prefix) + 1, Len(uri))
        delim == Find(rest, {63, 35})
        path == IF delim = 0 THEN rest ELSE SubSeq(rest, 1, delim - 1)
    IN  urlunparse(parts.scheme, parts.netloc, path \o target)

\* The redirected URI: the target of the directive put in place of the path.
redirected_uri(uri, target) ==
    urlunparse(urlparse(uri).scheme, urlparse(uri).netloc, target)

\* The statements after the try block: the charset is determined and the
\* contents are decoded.
decode_contents(page, gets) ==
    LET charset == determine_charset(page.charset, page.body)
        decoded == decode(page.body, charset)
    IN  IF decoded.exc # "None" THEN FetchRaised(decoded.exc, gets)
        ELSE Fetched(decoded.text, charset, gets)

\* An exception leaving the try block: a ValueError 'unknown url type' is
\* raised again as URLError, any other exception as it is.
reraise(e, gets) ==
    IF e = "ValueError: unknown url type" THEN FetchRaised("URLError", gets)
    ELSE FetchRaised(e, gets)

\* retrieve_uri_contents(uri), when the network answers the n-th GET with web[n].
retrieve_uri_contents(uri, web) ==
    LET first == urlopen(uri, web[1])
        gets1 == IF first.sent THEN <<uri>> ELSE <<>>
        match == search_refresh(first.response.body)
        target == first.response.body[match].data
        uri2 == redirected_uri(uri, target)
        second == urlopen(uri2, web[2])
        gets2 == IF second.sent THEN Append(gets1, uri2) ELSE gets1
    IN  IF first.response.exc # "None" THEN reraise(first.response.exc, gets1)
        ELSE IF match = 0 THEN decode_contents(first.response, gets1)
        ELSE IF \E i \in 1..Len(target) : target[i] >= 128
             THEN reraise("UnicodeDecodeError", gets1)
        ELSE IF second.response.exc # "None" THEN reraise(second.response.exc, gets2)
        ELSE decode_contents(second.response, gets2)

\* HTMLParser's tokenizer: the event each token of a decoded page is fed as.
\* The meta elements of the model carry no class attribute.
RECURSIVE Tokenize(_)
Tokenize(text) ==
    IF text = <<>> THEN <<>>
    ELSE LET t == Head(text)
             ev == CASE t.type = "start" -> StartTag(t.tag, t.attrs)
                     [] t.type = "end" -> EndTag(t.tag)
                     [] t.type = "data" -> Data(t.data)
                     [] OTHER -> StartTag("meta", <<>>)
         IN <<ev>> \o Tokenize(Tail(text))

----------------------------------------------------------------------------
(* MantecaExcel, MantecaText: the record sources *)

\* A cell of the input sheet: its data type ('s' for a string) and its value.
Cell(data_type, value) == [data_type |-> data_type, value |-> value]

\* urlparse(cell.value).scheme.startswith('http')
IsManteca(cell) ==
    /\ cell.data_type = "s"
    /\ Prefix(urlparse(cell.value).scheme, Len(HTTP)) = HTTP

\* MantecaExcel.get_mantecas: for every row of the sheet that has one, the
\* first cell holding a URI, with its row number.
RECURSIVE excel_get_mantecas(_, _)
excel_get_mantecas(rows, n) ==
    IF n > Len(rows) THEN <<>>
    ELSE LET found == {c \in 1..Len(rows[n]) : IsManteca(rows[n][c])}
             c1 == CHOOSE c \in found : \A d \in found : c <= d
         IN (IF found = {} THEN <<>> ELSE << <<n, rows[n][c1].value>> >>)
            \o excel_get_mantecas(rows, n + 1)

\* str.strip()
RECURSIVE lstrip(_)
lstrip(s) == IF s # <<>> /\ IsSpace(Head(s)) THEN lstrip(Tail(s)) ELSE s
RECURSIVE rstrip_space(_)
rstrip_space(s) ==
    IF s # <<>> /\ IsSpace(s[Len(s)]) THEN rstrip_space(SubSeq(s, 1, Len(s) - 1)) ELSE s
strip(s) == rstrip_space(lstrip(s))

\* MantecaText.get_mantecas: every line that is not blank, stripped, with its
\* line number.
RECURSIVE text_get_mantecas(_, _)
text_get_mantecas(lines, n) ==
    IF n > Len(lines) THEN <<>>
    ELSE (IF strip(lines[n]) # <<>> THEN << <<n, strip(lines[n])>> >> ELSE <<>>)
         \o text_get_mantecas(lines, n + 1)

\* get_mantecas() of the source main() opened.
get_mantecas(source) ==
    IF source.excel THEN excel_get_mantecas(source.rows, 1)
    ELSE text_get_mantecas(source.rows, 1)

----------------------------------------------------------------------------
(* SkimmedExcel, SkimmedText: the sinks *)

\* sheet.max_column: the largest column index of a cell of the sheet, 1 for a
\* sheet with no cells.
max_column(sheet) ==
    IF DOMAIN sheet = {} THEN 1
    ELSE LET cols == {rc[2] : rc \in DOMAIN sheet}
         IN CHOOSE c \in cols : \A d \in cols : d <= c

\* The column given to a new key, without the increment.
new_column_reuses_last(sheet) == max_column(sheet)

\* column = self.sheet.max_column + 1
new_column(sheet) == max_column(sheet) + 1

\* sheet.cell(row, column, value=value)
SetCell(sheet, row, column, value) == (<<row, column>> :> value) @@ sheet

\* The loop of SkimmedExcel.add_metadata over the items still to add.  The
\* styles of the header cell and the column dimensions are not part of the
\* state.
RECURSIVE excel_add_items(_, _, _)
excel_add_items(skimmed, row, items) ==
    IF items = <<>> THEN skimmed
    ELSE LET key == CONFIG_PREFIX \o Head(items)[1]
             value == Head(items)[2]
             column == new_column(skimmed.sheet)
             s1 == IF key \notin DOMAIN skimmed.metadata_columns
                   THEN [skimmed EXCEPT
                            !.metadata_columns = (key :> column) @@ @,
                            !.sheet = SetCell(@, 1, column, key)]
                   ELSE skimmed
             s2 == [s1 EXCEPT !.sheet = SetCell(@, row, s1.metadata_columns[key], value)]
         IN excel_add_items(s2, row, Tail(items))

\* A line SkimmedText writes: '[row] uri' or '    key: value'.
Line(kind, row, a, b) == [kind |-> kind, row |-> row, a |-> a, b |-> b]

RECURSIVE text_add_items(_, _)
text_add_items(skimmed, items) ==
    IF items = <<>> THEN skimmed
    ELSE text_add_items(
            [skimmed EXCEPT !.file = Append(@, Line("entry", 0, Head(items)[1], Head(items)[2]))],
            Tail(items))

\* add_metadata(row, uri, metadata) of SkimmedExcel or SkimmedText.
add_metadata(skimmed, row, uri, metadata) ==
    IF skimmed.excel THEN excel_add_items(skimmed, row, metadata)
    ELSE text_add_items([skimmed EXCEPT !.file = Append(@, Line("header", row, uri, <<>>))],
                        metadata)

\* SkimmedExcel(output_filename) on a copy of the input workbook, or
\* SkimmedText(output_filename) on an empty file.
SkimmedFile(excel, sheet) ==
    [excel |-> excel, metadata_columns |-> <<>>, sheet |-> sheet, file |-> <<>>]

\* The cells of a sheet given by its rows.
SheetOf(rows) ==
    [rc \in UNION {{<<r, c>> : c \in 1..Len(rows[r])} : r \in 1..Len(rows)}
        |-> rows[rc[1]][rc[2]].value]

----------------------------------------------------------------------------
(* retrieve_uri_contents called on URIs and network answers of bounded sets *)

\* URIs by their parts: scheme, '://', host, and the rest.
UriParts ==
    { [scheme |-> HTTP, host |-> <<104>>, rest |-> <<47, 97>>],             \* http://h/a
      [scheme |-> <<72, 84, 84, 80>>, host |-> <<104>>,
       rest |-> <<47, 97, 63, 113, 35, 102>>] }                             \* HTTP://h/a?q#f

MkUri(parts) == parts.scheme \o <<58, SLASH, SLASH>> \o parts.host \o parts.rest

FetchUris ==
    {MkUri(parts) : parts \in UriParts}
    \cup { <<104, 47, 97>>,                         \* h/a
           <<102, 111, 111, 58, 47, 47, 104>> }     \* foo://h

RefreshTargets ==
    { <<47, 98>>,                                   \* /b
      <<98>> }                                      \* b

TransportCharsets == {"None", "utf-8", "iso-8859-1"}

FetchTokens ==
    {MetaRefresh(t) : t \in RefreshTargets}
    \cup {MetaContentType("utf-8"), MetaContentType("iso-8859-1"), MetaCharset("utf-8")}
    \cup { Bytes(<<195, 169>>),                     \* 'é' in utf-8
           Bytes(<<233>>) }                         \* 'é' in latin-1

NetworkErrors == {"URLError", "ConnectionError", "IncompleteRead", "TimeoutError"}

Responses(n) ==
    {Page(c, b) : c \in TransportCharsets, b \in SeqsUpTo(FetchTokens, n)}
    \cup {Failure(e) : e \in NetworkErrors}

\* No call of retrieve_uri_contents has been made.
NotFetched == [exc |-> "pending", text |-> <<>>, charset |-> "None", gets |-> <<>>]
NoAnswer == Failure("URLError")

FetchIdle ==
    /\ req_uri = <<>>
    /\ network = <<NoAnswer, NoAnswer>>
    /\ fetched = NotFetched

MainIdle ==
    /\ mantecafile = [excel |-> FALSE, rows |-> <<>>]
    /\ skimmedfile = SkimmedFile(FALSE, <<>>)
    /\ pos = 0
    /\ bad_uris = <<>>
    /\ sink_calls = <<>>
    /\ closed = {}
    /\ pc = "off"
    /\ raised = "None"
    /\ report = <<>>

ParserIdle ==
    /\ parser = ParserInit
    /\ pstage = "idle"
    /\ nfed = 0
    /\ markup = <<>>
    /\ event = NoEvent
    /\ results = <<>>

\* The second answer matters only when the first page carries a directive.
InitFetch ==
    /\ ParserIdle
    /\ req_uri \in FetchUris
    /\ network \in {w \in Responses(MaxTokens) \X Responses(MaxTokens2) :
                      \/ (UrlType(req_uri) \in {HTTP, HTTPS} /\ search_refresh(w[1].body) # 0)
                      \/ (UrlType(req_uri) \in {HTTP, HTTPS} /\ w[2] = NoAnswer)
                      \/ w = <<NoAnswer, NoAnswer>>}
    /\ fetched = NotFetched
    /\ MainIdle

Fetch ==
    /\ fetched = NotFetched
    /\ req_uri # <<>>
    /\ fetched' = retrieve_uri_contents(req_uri, network)
    /\ UNCHANGED <<req_uri, network, parser_vars, main_vars>>

NextFetch == Fetch

SpecFetch == InitFetch /\ [][NextFetch]_vars

----------------------------------------------------------------------------
(* main(): the pipeline *)

Call(row, uri, metadata) == [row |-> row, uri |-> uri, metadata |-> metadata]

\* The objects the loop of main() works on.
Pipeline(p, skimmed, bad, calls, exc) ==
    [parser |-> p, skimmedfile |-> skimmed, bad_uris |-> bad, sink_calls |-> calls,
     raised |-> exc]

\* The handler of ConnectionError, were the exception raised again.
on_connection_error_reraises(m, uri) == [m EXCEPT !.raised = "ConnectionError"]

\* except ConnectionError:
on_connection_error(m, uri) ==
    [m EXCEPT !.bad_uris = Append(@, <<uri, "No se pudo conectar">>)]

\* The handler of URLError, were the failure not recorded.
on_url_error_unrecorded(m, uri) == m

\* except URLError:
on_url_error(m, uri) ==
    [m EXCEPT !.bad_uris = Append(@, <<uri, "No se pudo acceder">>)]

\* The statements after parse(), were the sink called only with some metadata.
on_metadata_skips_empty(m, row, uri, metadata) ==
    IF metadata = <<>>
    THEN [m EXCEPT !.bad_uris = Append(@, <<uri, "No se obtuvieron metadatos">>)]
    ELSE [m EXCEPT !.skimmedfile = add_metadata(@, row, uri, metadata),
                   !.sink_calls = Append(@, Call(row, uri, metadata))]

\* The statements after parse(): the failure entry for no metadata, then
\* skimmedfile.add_metadata(row, uri, metadata).
on_metadata(m, row, uri, metadata) ==
    [m EXCEPT
        !.bad_uris = IF metadata = <<>>
                     THEN Append(@, <<uri, "No se obtuvieron metadatos">>)
                     ELSE @,
        !.skimmedfile = add_metadata(@, row, uri, metadata),
        !.sink_calls = Append(@, Call(row, uri, metadata))]

\* The try statement of the loop, when retrieve_uri_contents(uri) ended as
\* `got`: the handlers of ConnectionError and URLError, any other exception
\* left to main(), and parse() and the sink on success.
try_body(m, row, uri, got) ==
    CHOOSE out \in
        { CASE got.exc = "ConnectionError" -> on_connection_error(m, uri)
            [] got.exc = "URLError" -> on_url_error(m, uri)
            [] got.exc \notin {"None", "ConnectionError", "URLError"} ->
                  [m EXCEPT !.raised = got.exc]
            [] got.exc = "None" /\ parsed.exc # "None" ->
                  [m EXCEPT !.parser = parsed.parser, !.raised = parsed.exc]
            [] got.exc = "None" /\ parsed.exc = "None" ->
                  on_metadata([m EXCEPT !.parser = parsed.parser], row, uri,
                              parsed.parser.retrieved_metadata)
          : parsed \in {parse(m.parser, Tokenize(got.text))} } : TRUE

\* One iteration of the loop of main(), for the record (row, uri), when the
\* network answers the GETs of this iteration with web[1], web[2].
loop_body(m, row, uri, web) ==
    CHOOSE out \in {try_body(m, row, uri, got) : got \in {retrieve_uri_contents(uri, web)}} : TRUE

----------------------------------------------------------------------------
(* The inputs of main() *)

URI_A == <<104, 116, 116, 112, 58, 47, 47, 104, 47, 97>>        \* http://h/a
URI_B == <<104, 116, 116, 112, 58, 47, 47, 104, 47, 98>>        \* http://h/b
NO_SCHEME == <<104, 47, 97>>                                    \* h/a

\* Rows of an input sheet.
SheetRows ==
    { <<Cell("s", <<84>>), Cell("s", URI_A)>>,                  \* 'T', a URI
      <<Cell("s", URI_B), Cell("s", URI_A), Cell("n", <<49>>)>>,  \* two URIs, a number
      <<Cell("s", <<84>>)>> }                                   \* no URI

\* Lines of an input text file.
TextLines ==
    { URI_A, <<32>> \o URI_B \o <<10>>, NO_SCHEME, <<10>> }

KeyRegion(text) ==
    <<Open("div", <<<<"class", CONFIG_K_DIV_CLASS>>>>), Bytes(text), Close("div")>>
ValueRegion(text) ==
    <<Open("div", <<<<"class", CONFIG_V_DIV_CLASS>>>>), Bytes(text), Close("div")>>

\* Pages of the catalogue.
MainPages ==
    { \* Autor: Cervantes
      Page("None", KeyRegion(<<65, 117, 116, 111, 114, 58>>)
                   \o ValueRegion(<<67, 101, 114, 118, 97, 110, 116, 101, 115>>)),
      \* T: é (utf-8, declared by the transport), Autor: C
      Page("utf-8", KeyRegion(<<84, 58>>) \o ValueRegion(<<195, 169>>)
                    \o KeyRegion(<<65, 117, 116, 111, 114, 58>>) \o ValueRegion(<<67>>)),
      \* no marked region
      Page("None", <<Bytes(<<120>>)>>),
      \* a value region left open
      Page("None", <<Open("div", <<<<"class", CONFIG_V_DIV_CLASS>>>>), Bytes(<<118>>)>>),
      \* bytes that are not UTF-8 under <meta charset="utf-8">
      Page("None", <<MetaCharset("utf-8"), Bytes(<<233>>)>>),
      \* a class attribute without a value
      Page("None", <<Open("div", <<<<"class", NoValue>>>>)>>) }

Redirection == Page("None", <<MetaRefresh(<<47, 98>>)>>)

\* What the network answers the GETs of one iteration.
MainWebs ==
    {<<r, NoAnswer>> : r \in MainPages \cup {Failure(e) : e \in NetworkErrors}}
    \cup {<<Redirection, r>> : r \in {Page("None", <<Bytes(<<120>>)>>),
                                      Page("None", KeyRegion(<<65, 58>>) \o ValueRegion(<<67>>)),
                                      Failure("ConnectionError")}}

----------------------------------------------------------------------------
(* main() as a state machine *)

Mantecas == get_mantecas(mantecafile)

Init ==
    /\ ParserIdle
    /\ FetchIdle
    /\ \E excel \in BOOLEAN :
         \E rows \in SeqsUpTo(IF excel THEN SheetRows ELSE TextLines, MaxRows) :
            /\ mantecafile = [excel |-> excel, rows |-> rows]
            /\ skimmedfile = SkimmedFile(excel, IF excel THEN SheetOf(rows) ELSE <<>>)
    /\ pos = 0
    /\ bad_uris = <<>>
    /\ sink_calls = <<>>
    /\ closed = {}
    /\ pc = "loop"
    /\ raised = "None"
    /\ report = <<>>

\* The for loop takes the next record and runs its body on it.  An exception
\* the body does not handle ends the try block: the finally clause runs and
\* main() is left with nothing closed.
Iterate ==
    /\ pc = "loop"
    /\ pos < Len(Mantecas)
    /\ \E web \in MainWebs :
         LET m == loop_body(Pipeline(parser, skimmedfile, bad_uris, sink_calls, raised),
                            Mantecas[pos + 1][1], Mantecas[pos + 1][2], web)
         IN /\ parser' = m.parser
            /\ skimmedfile' = m.skimmedfile
            /\ bad_uris' = m.bad_uris
            /\ sink_calls' = m.sink_calls
            /\ raised' = m.raised
            /\ pc' = IF m.raised # "None" THEN "done" ELSE "loop"
            /\ req_uri' = Mantecas[pos + 1][2]
            /\ network' = web
            /\ fetched' = retrieve_uri_contents(Mantecas[pos + 1][2], web)
    /\ pos' = pos + 1
    /\ UNCHANGED <<mantecafile, closed, report, pstage, nfed, markup, event, results>>

\* The source is exhausted: mantecafile.close()
CloseSource ==
    /\ pc = "loop"
    /\ pos = Len(Mantecas)
    /\ closed' = closed \cup {"mantecafile"}
    /\ pc' = "close_sink"
    /\ UNCHANGED <<mantecafile, skimmedfile, pos, bad_uris, sink_calls, raised, report,
                   parser_vars, fetch_vars>>

\* skimmedfile.close(): the workbook is saved, the file is closed.
CloseSink ==
    /\ pc = "close_sink"
    /\ closed' = closed \cup {"skimmedfile"}
    /\ pc' = "report"
    /\ UNCHANGED <<mantecafile, skimmedfile, pos, bad_uris, sink_calls, raised, report,
                   parser_vars, fetch_vars>>

\* skimmedfile.close() fails to save the workbook: the handler of
\* PermissionError sets the error message.
CloseSinkFails ==
    /\ pc = "close_sink"
    /\ skimmedfile.excel
    /\ raised' = "PermissionError"
    /\ pc' = "done"
    /\ UNCHANGED <<mantecafile, skimmedfile, pos, bad_uris, sink_calls, closed, report,
                   parser_vars, fetch_vars>>

\* The failure list is logged.
Report ==
    /\ pc = "report"
    /\ report' = bad_uris
    /\ pc' = "done"
    /\ UNCHANGED <<mantecafile, skimmedfile, pos, bad_uris, sink_calls, closed, raised,
                   parser_vars, fetch_vars>>

\* The operator interrupts the program: the handler of KeyboardInterrupt logs
\* it and the finally clause runs.
Interrupt ==
    /\ pc \in {"loop", "close_sink", "report"}
    /\ raised' = "KeyboardInterrupt"
    /\ pc' = "done"
    /\ UNCHANGED <<mantecafile, skimmedfile, pos, bad_uris, sink_calls, closed, report,
                   parser_vars, fetch_vars>>

Next == Iterate \/ CloseSource \/ CloseSink \/ CloseSinkFails \/ Report \/ Interrupt

Spec == Init /\ [][Next]_vars

----------------------------------------------------------------------------
(* A SkimmedExcel sink driven alone by add_metadata calls *)

MetadataKeys == { <<65>>, <<66>>, EMPTY_KEY }       \* 'A', 'B', '[vacío]'
MetadataValues == { <<120>>, <<121>> }              \* 'x', 'y'

\* The metadata sets: dicts of no, one or two items, no key twice.
MetadataSets ==
    {m \in SeqsUpTo(MetadataKeys \X MetadataValues, 2) :
        \A i, j \in 1..Len(m) : i # j => m[i][1] # m[j][1]}

\* The workbook the sink is opened on: no cells, or a header row of two cells.
SinkSheets == {SheetOf(<<>>), SheetOf(<< <<Cell("s", <<84>>), Cell("s", <<85>>)>> >>)}

\* The rows metadata are added at: the header row and a row under it.
SinkRows == {1, 2}

InitSink ==
    /\ ParserIdle
    /\ FetchIdle
    /\ mantecafile = [excel |-> TRUE, rows |-> <<>>]
    /\ \E sheet \in SinkSheets : skimmedfile = SkimmedFile(TRUE, sheet)
    /\ pos = 0
    /\ bad_uris = <<>>
    /\ sink_calls = <<>>
    /\ closed = {}
    /\ pc = "off"
    /\ raised = "None"
    /\ report = <<>>

AddMetadata ==
    /\ Len(sink_calls) < MaxSinkCalls
    /\ \E row \in SinkRows, metadata \in MetadataSets :
         /\ skimmedfile' = add_metadata(skimmedfile, row, URI_A, metadata)
         /\ sink_calls' = Append(sink_calls, Call(row, URI_A, metadata))
    /\ UNCHANGED <<mantecafile, pos, bad_uris, closed, pc, raised, report,
                   parser_vars, fetch_vars>>

NextSink == AddMetadata

SpecSink == InitSink /\ [][NextSink]_vars

----------------------------------------------------------------------------
(* The parser driven event by event: parse() calls on one parser object *)

InitParser ==
    /\ ParserIdle
    /\ FetchIdle
    /\ MainIdle

\* parse() is entered: the metadata of the previous call is cleared.
ParseBegin ==
    /\ pstage \in {"idle", "returned"}
    /\ parser' = parse_begin(parser)
    /\ pstage' = "feeding"
    /\ event' = NoEvent
    /\ UNCHANGED <<nfed, markup, results, fetch_vars, main_vars>>

\* feed() reaches the next event of the markup and calls its handler.
FeedEvent ==
    /\ pstage = "feeding"
    /\ nfed < MaxEvents
    /\ \E ev \in Events :
         LET r == Dispatch(parser, ev)
         IN /\ parser' = r.parser
            /\ pstage' = IF r.exc # "None" THEN "raised" ELSE "feeding"
            /\ event' = ev
    /\ nfed' = nfed + 1
    /\ UNCHANGED <<markup, results, fetch_vars, main_vars>>

\* The contents are exhausted: parse() returns self.retrieved_metadata.
ParseReturn ==
    /\ pstage = "feeding"
    /\ pstage' = "returned"
    /\ UNCHANGED <<parser, nfed, markup, event, results, fetch_vars, main_vars>>

NextParser == ParseBegin \/ FeedEvent \/ ParseReturn

SpecParser == InitParser /\ [][NextParser]_vars

----------------------------------------------------------------------------
(* parse() called repeatedly on the same markup by one parser object *)

InitExtract ==
    /\ parser = ParserInit
    /\ pstage = "idle"
    /\ nfed = 0
    /\ markup \in SeqsUpTo(Events, MaxMarkup)
    /\ event = NoEvent
    /\ results = <<>>
    /\ FetchIdle
    /\ MainIdle

\* An earlier parse() call of the same parser, on some other markup.
ParseBefore ==
    /\ pstage = "idle"
    /\ \E before \in SeqsUpTo(Events, MaxBefore) :
         LET r == parse(parser, before)
         IN /\ parser' = r.parser
            /\ pstage' = IF r.exc # "None" THEN "raised" ELSE "returned"
    /\ UNCHANGED <<nfed, markup, event, results, fetch_vars, main_vars>>

\* parse(contents), whole: the mapping it returns is recorded.
ParseContents ==
    /\ pstage \in {"idle", "returned"}
    /\ Len(results) < MaxRuns
    /\ LET r == parse(parser, markup)
       IN /\ parser' = r.parser
          /\ pstage' = IF r.exc # "None" THEN "raised" ELSE "returned"
          /\ results' = IF r.exc # "None" THEN results
                        ELSE Append(results, r.parser.retrieved_metadata)
    /\ UNCHANGED <<nfed, markup, event, fetch_vars, main_vars>>

NextExtract == ParseBefore \/ ParseContents

SpecExtract == InitExtract /\ [][NextExtract]_vars

----------------------------------------------------------------------------
(* Claims about the parser *)

\* C6: parse() is idempotent and stateless across calls: every parse() call of
\* one parser on the same markup returns the same ordered mapping, whatever
\* the parser parsed before.
C6_SameMarkupSameMapping ==
    \A i \in 1..Len(results) : results[i] = results[1]

\* C7: every key of the mapping parse() builds is a non-empty string; a value
\* region closed with an empty key buffer is stored under the sentinel key.
C7_KeysNonEmpty ==
    \A i \in 1..Len(parser.retrieved_metadata) :
        Len(parser.retrieved_metadata[i][1]) > 0

\* A returned mapping holds an entry under the sentinel key and one under a
\* key read from the markup.
C7_Witness ==
    /\ pstage = "returned"
    /\ EMPTY_KEY \in DictKeys(parser.retrieved_metadata)
    /\ <<98>> \in DictKeys(parser.retrieved_metadata)

\* C8: parse() never raises, whatever the sequence of events.
C8_NeverRaises == pstage # "raised"

----------------------------------------------------------------------------
(* Claims about the fetcher *)

\* The page whose body retrieve_uri_contents has to return: the second answer
\* when the first page carries a refresh directive, the first otherwise.
HasRefresh(page) == \E i \in 1..Len(page.body) : page.body[i].type = "refresh"
FirstTarget(page) ==
    LET i == CHOOSE k \in 1..Len(page.body) :
                /\ page.body[k].type = "refresh"
                /\ \A j \in 1..(k - 1) : page.body[j].type # "refresh"
    IN  page.body[i].data
FinalPage == IF HasRefresh(network[1]) THEN network[2] ELSE network[1]
DecodedPage(page) == decode(page.body, determine_charset(page.charset, page.body)).text

\* C9: one level of meta-refresh redirection: with a directive of target T in
\* the first body exactly one more GET is issued, to scheme://host of the
\* original URI followed by T as the path, and what is returned is the second
\* body decoded with the second response's charset; without a directive
\* exactly one GET is issued.
C9_OneRedirection ==
    \A parts \in UriParts :
        (req_uri = MkUri(parts) /\ fetched # NotFetched /\ network[1].exc = "None") =>
            IF HasRefresh(network[1])
            THEN LET T == FirstTarget(network[1])
                     expected == Lower(parts.scheme) \o <<58, SLASH, SLASH>> \o parts.host
                                 \o (IF T[1] = SLASH THEN T ELSE <<SLASH>> \o T)
                 IN /\ fetched.gets = <<req_uri, expected>>
                    /\ fetched.exc = "None" =>
                         /\ network[2].exc = "None"
                         /\ fetched.text = DecodedPage(network[2])
            ELSE /\ fetched.gets = <<req_uri>>
                 /\ fetched.exc = "None" => fetched.text = DecodedPage(network[1])

\* A redirected fetch has returned: the target is relative, the page it leads
\* to carries a directive of its own and declares another charset than the
\* first page.
C9_Witness ==
    /\ fetched.exc = "None"
    /\ Len(fetched.gets) = 2
    /\ FirstTarget(network[1]) = <<98>>
    /\ HasRefresh(network[2])
    /\ network[1].charset = "utf-8"
    /\ network[2].charset = "iso-8859-1"

----------------------------------------------------------------------------
(* Claims about the spreadsheet sink *)

\* C5: a prefixed key is given one column, on the first add_metadata call that
\* carries it, and keeps it; later calls write the key's value into that
\* column and make no new column for it; the columns of successive new keys
\* are strictly increasing, so no two keys share a column.
C5_Step ==
    LET before == skimmedfile.metadata_columns
        after == skimmedfile'.metadata_columns
        call == sink_calls'[Len(sink_calls')]
        keys == [i \in 1..Len(call.metadata) |-> CONFIG_PREFIX \o call.metadata[i][1]]
        new == {i \in 1..Len(keys) : keys[i] \notin DOMAIN before}
    IN  sink_calls' # sink_calls =>
          /\ \A k \in DOMAIN before : k \in DOMAIN after /\ after[k] = before[k]
          /\ DOMAIN after = DOMAIN before \cup {keys[i] : i \in 1..Len(keys)}
          /\ \A i \in new : \A k \in DOMAIN before : after[keys[i]] > before[k]
          /\ \A i \in new : after[keys[i]] > max_column(skimmedfile.sheet)
          /\ \A i, j \in new : i < j => after[keys[i]] < after[keys[j]]
          /\ \A k1, k2 \in DOMAIN after : k1 # k2 => after[k1] # after[k2]
          /\ max_column(skimmedfile'.sheet) = max_column(skimmedfile.sheet) + Cardinality(new)
          /\ \A i \in 1..Len(keys) :
               skimmedfile'.sheet[<<call.row, after[keys[i]]>>] = call.metadata[i][2]

C5_ColumnsStable == [][C5_Step]_vars

\* Two calls for different rows carried the same key together with two
\* different other keys: three columns are assigned, and both values of the
\* shared key are in its column.
C5_Witness ==
    /\ Len(sink_calls) = 2
    /\ sink_calls[1].row # sink_calls[2].row
    /\ Cardinality(DOMAIN skimmedfile.metadata_columns) = 3
    /\ \E k \in MetadataKeys :
         /\ \E i \in 1..Len(sink_calls[1].metadata) : sink_calls[1].metadata[i] = <<k, <<120>>>>
         /\ \E i \in 1..Len(sink_calls[2].metadata) : sink_calls[2].metadata[i] = <<k, <<121>>>>
         /\ LET column == skimmedfile.metadata_columns[CONFIG_PREFIX \o k]
            IN /\ skimmedfile.sheet[<<sink_calls[1].row, column>>] = <<120>>
               /\ skimmedfile.sheet[<<sink_calls[2].row, column>>] = <<121>>

----------------------------------------------------------------------------
(* Claims about the pipeline *)

\* The step is an iteration of the loop of main(), for the record Record.
Iterated == pc = "loop" /\ pos' = pos + 1
Record == Mantecas[pos + 1]
\* The iteration went on to the next record.
Continued == pc' = "loop" /\ raised' = "None"

\* C1: a record whose fetch raises a connection failure gets no add_metadata
\* call and exactly one failure entry (uri, 'No se pudo conectar'), and the
\* loop goes on with the next record.
C1_Step ==
    (Iterated /\ fetched'.exc = "ConnectionError") =>
        /\ sink_calls' = sink_calls
        /\ skimmedfile' = skimmedfile
        /\ bad_uris' = Append(bad_uris, <<Record[2], "No se pudo conectar">>)
        /\ Continued

C1_ConnectionFailureSkipsRow == [][C1_Step]_vars

\* A connection failure has been recorded for the first record and the second
\* record has been given to the sink.
C1_Witness ==
    /\ Len(bad_uris) = 1
    /\ bad_uris[1][2] = "No se pudo conectar"
    /\ pos = 2
    /\ Len(sink_calls) = 1
    /\ sink_calls[1].row = Mantecas[2][1]

\* The mapping parse() returns for the page fetched in this step.
Extracted == parse(parser, Tokenize(fetched'.text))

\* C2: a record whose fetch succeeds and whose extraction yields no metadata
\* gets one add_metadata call with the empty set and exactly one failure entry
\* (uri, 'No se obtuvieron metadatos'); the call leaves the spreadsheet sink's
\* key->column mapping and its columns as they were.
C2_Step ==
    (/\ Iterated
     /\ fetched'.exc = "None"
     /\ Extracted.exc = "None"
     /\ Extracted.parser.retrieved_metadata = <<>>) =>
        /\ sink_calls' = Append(sink_calls, Call(Record[1], Record[2], <<>>))
        /\ bad_uris' = Append(bad_uris, <<Record[2], "No se obtuvieron metadatos">>)
        /\ skimmedfile'.metadata_columns = skimmedfile.metadata_columns
        /\ skimmedfile'.sheet = skimmedfile.sheet
        /\ Continued

C2_EmptyMetadataStillAdded == [][C2_Step]_vars

\* A spreadsheet sink that has columns assigned was called with an empty
\* metadata set for its second record.
C2_Witness ==
    /\ skimmedfile.excel
    /\ Len(sink_calls) = 2
    /\ sink_calls[1].metadata # <<>>
    /\ sink_calls[2].metadata = <<>>
    /\ Len(bad_uris) = 1
    /\ bad_uris[1] = <<sink_calls[2].uri, "No se obtuvieron metadatos">>

\* C3: a failure of the fetch of a record, of any kind, is recorded as one
\* failure entry for its URI and the loop goes on with the next record.
C3_Step ==
    (Iterated /\ fetched'.exc # "None") =>
        /\ Len(bad_uris') = Len(bad_uris) + 1
        /\ bad_uris'[Len(bad_uris')][1] = Record[2]
        /\ Continued

C3_FetchFailureNeverAborts == [][C3_Step]_vars

\* C4: when main() is left, by the source being exhausted, by an interruption
\* or by an error raised for some record, close() has been called on the source
\* and on the sink.
C4_ClosedOnEveryExit ==
    (pc = "done" /\ raised # "PermissionError") =>
        closed = {"mantecafile", "skimmedfile"}

----------------------------------------------------------------------------
(* Claims about the handlers of the parser *)

\* The step is feed() handling the event event', and the handler returned.
Fed == pstage = "feeding" /\ nfed' = nfed + 1 /\ pstage' = "feeding"

\* The opening tag carries the marker in the value of a class attribute.
Carries(ev, marker) ==
    /\ ev.type = "start"
    /\ \E i \in 1..Len(ev.attrs) :
         /\ ev.attrs[i][1] = "class"
         /\ ev.attrs[i][2] # NoValue
         /\ Contains(marker, ev.attrs[i][2])

\* C11: a region flag is cleared only by the close tag that matches the opening
\* tag that set it.  The markers are carried by div tags only, so </a> is never
\* that close tag: handling </a> leaves both flags, the value buffer and the
\* result mapping as they were.
C11_Step ==
    (Fed /\ event' = EndTag("a")) =>
        /\ parser'.within_k_tag = parser.within_k_tag
        /\ parser'.within_v_tag = parser.within_v_tag
        /\ parser'.current_value = parser.current_value
        /\ parser'.retrieved_metadata = parser.retrieved_metadata

C11_OnlyMatchingCloseClears == [][C11_Step]_vars

\* C12: an opening tag that carries the key (value) marker while the key
\* (value) flag is already set leaves the flag set and the key (value) buffer
\* as it was.
C12_Step ==
    Fed =>
        /\ (Carries(event', CONFIG_K_DIV_CLASS) /\ parser.within_k_tag) =>
                /\ parser'.within_k_tag
                /\ parser'.current_key = parser.current_key
        /\ (Carries(event', CONFIG_V_DIV_CLASS) /\ parser.within_v_tag) =>
                /\ parser'.within_v_tag
                /\ parser'.current_value = parser.current_value

C12_ReopenIsNoOp == [][C12_Step]_vars

\* The items of a mapping whose key is not `key`, in order.
Others(d, key) == SelectSeq(d, LAMBDA item : item[1] # key)
\* The values a mapping holds under `key`, one per item.
ValuesOf(d, key) == SelectSeq(d, LAMBDA item : item[1] = key)

\* C13: the result mapping changes only when a value region closes.  A close
\* event with the value flag clear leaves the mapping and the key buffer as
\* they were; a close event with the value flag set stores exactly one item,
\* current key (or the sentinel) -> current value, in place of any earlier
\* item of that key and with all other items kept, and empties both buffers;
\* no other event changes the mapping.
C13_Step ==
    Fed =>
        LET key == IF parser.current_key = <<>> THEN EMPTY_KEY ELSE parser.current_key
            old == parser.retrieved_metadata
            new == parser'.retrieved_metadata
        IN  CASE event'.type = "end" /\ parser.within_v_tag ->
                    /\ ValuesOf(new, key) = <<<<key, parser.current_value>>>>
                    /\ Others(new, key) = Others(old, key)
                    /\ parser'.current_key = <<>>
                    /\ parser'.current_value = <<>>
              [] event'.type = "end" /\ ~parser.within_v_tag ->
                    /\ new = old
                    /\ parser'.current_key = parser.current_key
              [] OTHER -> new = old

C13_OnlyValueCloseCommits == [][C13_Step]_vars

\* A value region has just closed with an empty key buffer after another one
\* closed under a key: the mapping holds the key's item and the sentinel's.
C13_Witness ==
    /\ pstage = "feeding"
    /\ event = EndTag("div")
    /\ Len(parser.retrieved_metadata) = 2
    /\ parser.retrieved_metadata[1][1] = <<97>>
    /\ parser.retrieved_metadata[2][1] = EMPTY_KEY
    /\ parser.current_key = <<>>
    /\ parser.current_value = <<>>
    /\ ~parser.within_v_tag

----------------------------------------------------------------------------
(* Claims about a whole run of main() *)

\* The entries of the failure list that record a failed fetch.
FetchFailures(bad) ==
    SelectSeq(bad, LAMBDA entry : entry[2] \in {"No se pudo conectar", "No se pudo acceder"})

\* The records are accounted for, in order, each by the next add_metadata call,
\* made with its row and URI, or by the next fetch failure, recorded for its URI.
RECURSIVE Accounted(_, _, _)
Accounted(records, calls, failures) ==
    IF records = <<>> THEN calls = <<>> /\ failures = <<>>
    ELSE \/ /\ calls # <<>>
            /\ Head(calls).row = Head(records)[1]
            /\ Head(calls).uri = Head(records)[2]
            /\ Accounted(Tail(records), Tail(calls), failures)
         \/ /\ failures # <<>>
            /\ Head(failures)[1] = Head(records)[2]
            /\ Accounted(Tail(records), calls, Tail(failures))

\* main() ended with no exception leaving the try block.
EndedNormally == pc = "done" /\ raised = "None"

\* C14: in a run that ends with no fatal error and no interruption, every
\* record of the source got, in source order, either one add_metadata call with
\* its own row and URI or one fetch-failure entry for its URI, never both and
\* never neither; the failure report is logged only after the source and the
\* sink were closed, and lists the entries in the order they occurred.
C14_EveryRecordAccounted ==
    /\ pc = "report" => closed = {"mantecafile", "skimmedfile"}
    /\ EndedNormally =>
        /\ Len(sink_calls) + Len(FetchFailures(bad_uris)) = Len(Mantecas)
        /\ Accounted(Mantecas, sink_calls, FetchFailures(bad_uris))
        /\ closed = {"mantecafile", "skimmedfile"}
        /\ report = bad_uris

\* A run of two records ended normally: the first could not be fetched, the
\* second was given to the sink with no metadata, and both are in the report.
C14_Witness ==
    /\ EndedNormally
    /\ Len(Mantecas) = 2
    /\ Len(sink_calls) = 1
    /\ sink_calls[1].row = Mantecas[2][1]
    /\ Len(report) = 2
    /\ report[1] = <<Mantecas[1][2], "No se pudo acceder">>
    /\ report[2] = <<Mantecas[2][2], "No se obtuvieron metadatos">>

====
